---------------------------- MODULE Spec2Model ----------------------------
(***************************************************************************)
(* A model of the multi-root client lifecycle of vscode-clangd:            *)
(*   - src/src/root-management.ts: the clangd.setRoots command, the        *)
(*     reconciliation of the document selector and the restart             *)
(*     coordinator (restartCLangDSafely);                                  *)
(*   - src/src/extension.ts: the workspace-folder resolver, the client     *)
(*     registry with its event handlers, and ClangdLanguageClient.         *)
(* Strings whose characters matter (roots, globs, URIs) are sequences of   *)
(* one-character strings.                                                  *)
(***************************************************************************)
EXTENDS Integers, Sequences, FiniteSets, TLC

\* ------------------------------------------------------------------ bounds

\* The most clients created in one run.
MaxClients == 2
\* The most handlers suspended at the same time.
MaxHandlers == 1
\* The most start() calls on one ClangdLanguageClient.
MaxStarts == 4
\* The most dispose() calls one disposable is let receive.
MaxDisposals == 3
\* The most workspace folders configured at once when the resolver is tried.
MaxFolders == 3
\* The longest list of roots one clangd.setRoots call carries.
MaxRoots == 2
\* The most pairs of managed rules the live rule collection is let grow to.
MaxPairs == 2
\* The most restart requests issued in one run.
MaxRequests == 2
\* The most rules the inline handler of extension.ts lets the collection hold.
MaxRules == 7

VARIABLES
    \* root-management.ts
    selectors,          \* clangdDocumentSelector: the live rule collection
    simpleCancelation,  \* the token object the module variable points to
    canceled,           \* token object -> its canceled field
    reqs,               \* the restartCLangDSafely calls, in order of issue
    contextClient,      \* clangdContext.client: none, starting, ready, failed
    restartLog,         \* the 'clangd.restart' commands executed, in order
    lastCall,           \* how the last clangd.setRoots call ended: none (no
                        \* call yet), invalid, unchanged, reconciled
    lastReconcile,      \* the last compare-and-apply run on its own: its
                        \* roots, its delta and the managed patterns before
    \* extension.ts
    workspaceFolders,   \* vscode.workspace.workspaceFolders, as URI strings
    sortedCache,        \* _sortedWorkspaceFolders: undefined or the sorted list
    resolved,           \* the last getOuterMostWorkspaceFolder call on its own
    startDisposable,    \* ClangdLanguageClient.startDisposable: 0 (undefined)
                        \* or the number of the start() that returned it
    disposeCalls,       \* start() number -> dispose() calls on its disposable
    clientOps,          \* the last two calls on the ClangdLanguageClient
    config,             \* folder -> its cpp.cppLanguageClient setting
    textDocuments,      \* vscode.workspace.textDocuments: the open documents
    clients,            \* the registry: folder -> client number, 0 for none
    clientObjs,         \* the clients created, in order: folder and state
    found,              \* whether the last existence check on the registry
                        \* (clients.has, clients.get) found a client
    handlers            \* the async handlers suspended at an await

rootVars == <<selectors, simpleCancelation, canceled, reqs, contextClient,
              restartLog, lastCall>>

resolverVars == <<workspaceFolders, sortedCache, resolved>>

disposeVars == <<startDisposable, disposeCalls, clientOps>>

registryVars ==
    <<config, textDocuments, clients, clientObjs, found, handlers>>

vars == <<rootVars, lastReconcile, resolverVars, disposeVars, registryVars>>

\* ------------------------------------------- the parts of the state at rest

\* A URI is the string folder.uri.toString() gives, here without its scheme.
\* No folder (undefined) is the empty string.
NoFolder == <<>>

NoResolution == [done |-> FALSE, folder |-> NoFolder, result |-> NoFolder]

ResolverIdle ==
    /\ workspaceFolders = <<>>
    /\ sortedCache = [defined |-> FALSE, list |-> <<>>]
    /\ resolved = NoResolution

NoOps == [prev |-> "none", last |-> "none", disposedSomething |-> FALSE]

DisposeIdle ==
    /\ startDisposable = 0
    /\ disposeCalls = <<>>
    /\ clientOps = NoOps

\* The workspace folders of the lifecycle model: /w and /w/p inside it, in the
\* order the workspace lists them.
FolderOrder == << <<"/", "w">>, <<"/", "w", "/", "p">> >>

Folders == { FolderOrder[i] : i \in 1..Len(FolderOrder) }

IdleHandler ==
    [kind |-> "idle", removed |-> <<>>, added |-> <<>>, folders |-> <<>>,
     idx |-> 0, awaiting |-> {}]

RegistryIdle ==
    /\ config = [f \in Folders |-> "any"]
    /\ textDocuments = {}
    /\ clients = [f \in Folders |-> 0]
    /\ clientObjs = <<>>
    /\ found = FALSE
    /\ handlers = <<>>

\* ------------------------------------------------- strings, roots and globs

\* 'not' and the rendering of 123, the items of the invalid argument.
StrNot == <<"n", "o", "t">>
Str123 == <<"1", "2", "3">>

\* One root spelled three ways: /a, /a/ and /a//.
RootStrings ==
    { <<"/", "a">>, <<"/", "a", "/">>, <<"/", "a", "/", "/">> }

\* The root strings the clangd.setRoots calls draw from: /a and /b/.
CallRoots == { <<"/", "a">>, <<"/", "b", "/">> }

\* String.prototype.endsWith('/').
EndsWithSlash(s) == Len(s) > 0 /\ s[Len(s)] = "/"

\* `${root.endsWith('/') ? root : root + '/'}**/*`
Glob(root) ==
    (IF EndsWithSlash(root) THEN root ELSE Append(root, "/"))
        \o <<"*", "*", "/", "*">>

\* newRoots.map(root => ...)
WithGlobs(newRoots) == [i \in 1..Len(newRoots) |-> Glob(newRoots[i])]

\* A rule without a pattern (typeof item.pattern !== 'string').
NoPattern == <<>>

Rule(lang, pat) == [language |-> lang, pattern |-> pat]

\* The rule collection the extension starts with: clangd-context's
\* clangdDocumentSelector, whose rules carry no pattern.
InitialSelectors ==
    { << Rule("c", NoPattern), Rule("cpp", NoPattern),
         Rule("cuda", NoPattern) >> }

\* ------------------------------------------------------- the call argument

StrItem(s) == [isString |-> TRUE, val |-> s]
NumItem(s) == [isString |-> FALSE, val |-> s]

RECURSIVE SeqsUpTo(_, _)
SeqsUpTo(S, n) ==
    IF n = 0 THEN { <<>> }
    ELSE LET shorter == SeqsUpTo(S, n - 1)
         IN  shorter \cup { Append(s, x) : s \in shorter, x \in S }

ArrayArg(items) == [isArray |-> TRUE, items |-> items]

\* A list of root strings.
RootsArg(roots) == ArrayArg([i \in 1..Len(roots) |-> StrItem(roots[i])])

ValidArgs == { RootsArg(roots) : roots \in SeqsUpTo(CallRoots, MaxRoots) }

\* A non-array and ['not', 123].
InvalidArgs ==
    { [isArray |-> FALSE, items |-> <<>>],
      ArrayArg(<< StrItem(StrNot), NumItem(Str123) >>) }

Args == ValidArgs \cup InvalidArgs

ItemVals(arg) == [i \in 1..Len(arg.items) |-> arg.items[i].val]

\* Array.isArray only: the every(item => typeof item === 'string') test lost.
IsValidArgArrayOnly(arg) == arg.isArray

\* Array.isArray(newRoots) && newRoots.every(item => typeof item === 'string')
IsValidArg(arg) ==
    arg.isArray /\ \A i \in 1..Len(arg.items) : arg.items[i].isString

\* ----------------------------------------------------------- reconciliation

IsManaged(item) ==
    item.language \in {"c", "cpp"} /\ item.pattern # NoPattern

\* getCurrentRoots: the patterns of the managed rules, in order.
getCurrentRoots(sel) ==
    LET kept == SelectSeq(sel, IsManaged)
    IN  [i \in 1..Len(kept) |-> kept[i].pattern]

SeqToSet(s) == { s[i] : i \in 1..Len(s) }

\* The for loop of compareCurrentAndDesiredRoots from position i on.
RECURSIVE compareLoop(_, _, _, _)
compareLoop(withGlobs, i, current, toAdds) ==
    IF i > Len(withGlobs) THEN [toAdds |-> toAdds, toDeletes |-> current]
    ELSE LET glob == withGlobs[i]
         IN  compareLoop(withGlobs, i + 1, current \ {glob},
                         IF glob \notin current THEN Append(toAdds, glob)
                                                ELSE toAdds)

compareCurrentAndDesiredRoots(newRoots, sel) ==
    compareLoop(WithGlobs(newRoots), 1, SeqToSet(getCurrentRoots(sel)), <<>>)

\* selectors.findIndex(item => item.pattern === p): 0 stands for -1.
findIndex(sel, p) ==
    IF \E i \in 1..Len(sel) : sel[i].pattern = p
    THEN CHOOSE i \in 1..Len(sel) :
            /\ sel[i].pattern = p
            /\ \A j \in 1..(i - 1) : sel[j].pattern # p
    ELSE 0

\* selectors.splice(index, 1)
splice(sel, index) ==
    [i \in 1..(Len(sel) - 1) |-> IF i < index THEN sel[i] ELSE sel[i + 1]]

\* One splice only, as in an if in place of the while.
removePatternOnce(sel, p) ==
    IF findIndex(sel, p) # 0 THEN splice(sel, findIndex(sel, p)) ELSE sel

\* while ((index = selectors.findIndex(...)) !== -1) selectors.splice(index, 1)
RECURSIVE removePattern(_, _)
removePattern(sel, p) ==
    IF findIndex(sel, p) # 0
    THEN removePattern(splice(sel, findIndex(sel, p)), p)
    ELSE sel

\* for (const toDelete of toDeletes): the result does not depend on the order.
RECURSIVE deleteLoop(_, _)
deleteLoop(sel, toDeletes) ==
    IF toDeletes = {} THEN sel
    ELSE LET p == CHOOSE q \in toDeletes : TRUE
         IN  deleteLoop(removePattern(sel, p), toDeletes \ {p})

\* The push with its second rule lost: only the c rule is added.
RECURSIVE addLoopOnlyC(_, _, _)
addLoopOnlyC(sel, toAdds, i) ==
    IF i > Len(toAdds) THEN sel
    ELSE addLoopOnlyC(Append(sel, Rule("c", toAdds[i])), toAdds, i + 1)

\* for (const toAdd of toAdds) selectors.push({c}, {cpp})
RECURSIVE addLoop(_, _, _)
addLoop(sel, toAdds, i) ==
    IF i > Len(toAdds) THEN sel
    ELSE addLoop(sel \o << Rule("c", toAdds[i]), Rule("cpp", toAdds[i]) >>,
                 toAdds, i + 1)

reconcileSelectorsAndTargets(toAdds, toDeletes, sel) ==
    addLoop(deleteLoop(sel, toDeletes), toAdds, 1)

\* ------------------------------------------------------ restart coordinator

\* A restart request that leaves the previous token alone.
cancelPreviousMissing(canc, tok) == canc

\* simpleCancelation.canceled = true
cancelPrevious(canc, tok) == [canc EXCEPT ![tok] = TRUE]

\* A restart only when something was added.
needsRestartAddsOnly(delta) == delta.toAdds # <<>>

\* A restart whatever the delta.
needsRestartAlways(delta) == TRUE

\* if (toDeletes.size || toAdds.length)
needsRestart(delta) == delta.toDeletes # {} \/ delta.toAdds # <<>>

\* The synchronous head of waitForClientReady: with no client the call waits on
\* the 500 ms timer, with one it waits on client.onReady().
firstWait(client) == IF client = "none" THEN "poll" ELSE "onReady"


NoReconcile ==
    [applied |-> FALSE, roots |-> <<>>, withGlobs |-> <<>>, toAdds |-> <<>>,
     toDeletes |-> {}, before |-> {}]

\* Token objects are numbered from 1; token 1 is the object the module starts
\* with (let simpleCancelation = {canceled: false}).
InitRoots ==
    /\ selectors \in InitialSelectors
    /\ simpleCancelation = 1
    /\ canceled = <<FALSE>>
    /\ reqs = <<>>
    /\ contextClient = "none"
    /\ restartLog = <<>>
    /\ lastCall = "none"
    /\ lastReconcile = NoReconcile
    /\ ResolverIdle
    /\ DisposeIdle
    /\ RegistryIdle

\* Requests still waiting when a newer one is issued are marked overlapped.
MarkOverlapped(rs) ==
    [i \in 1..Len(rs) |->
        IF rs[i].pc # "done" THEN [rs[i] EXCEPT !.overlapped = TRUE] ELSE rs[i]]

\* The clangd.setRoots handler up to its first suspension: the validation, the
\* reconciliation and, on a non-empty delta, restartCLangDSafely up to the await
\* of waitForClientReady.
SetRoots(arg) ==
    IF ~IsValidArg(arg)
    THEN /\ lastCall' = "invalid"
         /\ UNCHANGED <<selectors, simpleCancelation, canceled, reqs,
                        contextClient, restartLog>>
    ELSE LET newRoots == ItemVals(arg)
             delta    == compareCurrentAndDesiredRoots(newRoots, selectors)
             after    == reconcileSelectorsAndTargets(delta.toAdds,
                                                      delta.toDeletes, selectors)
             restart  == needsRestart(delta)
             tok      == Len(canceled) + 1
         IN  /\ Len(getCurrentRoots(after)) <= 2 * MaxPairs
             /\ restart => Len(reqs) < MaxRequests
             /\ selectors' = after
             /\ lastCall' = IF restart THEN "reconciled" ELSE "unchanged"
             /\ IF restart
                THEN /\ canceled' =
                          Append(cancelPrevious(canceled, simpleCancelation),
                                 FALSE)
                     /\ simpleCancelation' = tok
                     /\ reqs' = Append(MarkOverlapped(reqs),
                                  [tok |-> tok,
                                   scope |-> SeqToSet(WithGlobs(newRoots)),
                                   pc |-> firstWait(contextClient),
                                   issued |-> 0,
                                   outcome |-> "pending",
                                   overlapped |-> FALSE])
                ELSE UNCHANGED <<canceled, simpleCancelation, reqs>>
             /\ UNCHANGED <<contextClient, restartLog>>

\* waitForClientReady's timer fires and the loop finds a client: the request
\* goes on to await client.onReady(). (A tick that finds none changes nothing.)
PollTick(r) ==
    /\ r \in 1..Len(reqs)
    /\ reqs[r].pc = "poll"
    /\ contextClient # "none"
    /\ reqs' = [reqs EXCEPT ![r].pc = "onReady"]
    /\ UNCHANGED <<selectors, simpleCancelation, canceled, contextClient,
                   restartLog, lastCall>>

\* The patterns of the managed rules, as a set.
ManagedPatterns(sel) == SeqToSet(getCurrentRoots(sel))

\* onReady() resolves: restartCLangDSafely runs from the await to its end. A
\* canceled token returns; a live one executes 'clangd.restart'.
ReadyResolves(r) ==
    /\ r \in 1..Len(reqs)
    /\ reqs[r].pc = "onReady"
    /\ contextClient = "ready"
    /\ IF canceled[reqs[r].tok]
       THEN /\ reqs' = [reqs EXCEPT ![r].pc = "done", ![r].outcome = "stale"]
            /\ UNCHANGED restartLog
       ELSE /\ reqs' = [reqs EXCEPT ![r].pc = "done",
                                    ![r].outcome = "restarted",
                                    ![r].issued = @ + 1]
            /\ restartLog' = Append(restartLog,
                                [req |-> r, scope |-> ManagedPatterns(selectors)])
    /\ UNCHANGED <<selectors, simpleCancelation, canceled, contextClient,
                   lastCall>>

\* onReady() rejects and the catch block falls through to the restart.
ReadyRejectsFallsThrough(r) ==
    /\ r \in 1..Len(reqs)
    /\ reqs[r].pc = "onReady"
    /\ contextClient = "failed"
    /\ reqs' = [reqs EXCEPT ![r].pc = "done", ![r].outcome = "failed",
                            ![r].issued = @ + 1]
    /\ restartLog' = Append(restartLog,
                        [req |-> r, scope |-> ManagedPatterns(selectors)])
    /\ UNCHANGED <<selectors, simpleCancelation, canceled, contextClient,
                   lastCall>>

\* onReady() rejects: the catch block returns.
ReadyRejects(r) ==
    /\ r \in 1..Len(reqs)
    /\ reqs[r].pc = "onReady"
    /\ contextClient = "failed"
    /\ reqs' = [reqs EXCEPT ![r].pc = "done", ![r].outcome = "failed"]
    /\ UNCHANGED <<selectors, simpleCancelation, canceled, contextClient,
                   restartLog, lastCall>>

\* The client context, seen from root-management.ts: a client is created,
\* becomes ready or fails to start, and is disposed (clangd.restart does the
\* last and the first in turn).
ContextActivate ==
    /\ contextClient = "none"
    /\ contextClient' = "starting"
    /\ UNCHANGED <<selectors, simpleCancelation, canceled, reqs, restartLog,
                   lastCall>>

ContextReady ==
    /\ contextClient = "starting"
    /\ contextClient' = "ready"
    /\ UNCHANGED <<selectors, simpleCancelation, canceled, reqs, restartLog,
                   lastCall>>

ContextFails ==
    /\ contextClient = "starting"
    /\ contextClient' = "failed"
    /\ UNCHANGED <<selectors, simpleCancelation, canceled, reqs, restartLog,
                   lastCall>>

ContextDispose ==
    /\ contextClient # "none"
    /\ contextClient' = "none"
    /\ UNCHANGED <<selectors, simpleCancelation, canceled, reqs, restartLog,
                   lastCall>>

NextRoots ==
    \/ \E arg \in Args : SetRoots(arg) /\ UNCHANGED <<lastReconcile, resolverVars, disposeVars, registryVars>>
    \/ \E r \in 1..MaxRequests : PollTick(r) /\ UNCHANGED <<lastReconcile, resolverVars, disposeVars, registryVars>>
    \/ \E r \in 1..MaxRequests : ReadyResolves(r) /\ UNCHANGED <<lastReconcile, resolverVars, disposeVars, registryVars>>
    \/ \E r \in 1..MaxRequests : ReadyRejects(r) /\ UNCHANGED <<lastReconcile, resolverVars, disposeVars, registryVars>>
    \/ ContextActivate /\ UNCHANGED <<lastReconcile, resolverVars, disposeVars, registryVars>>
    \/ ContextReady /\ UNCHANGED <<lastReconcile, resolverVars, disposeVars, registryVars>>
    \/ ContextFails /\ UNCHANGED <<lastReconcile, resolverVars, disposeVars, registryVars>>
    \/ ContextDispose /\ UNCHANGED <<lastReconcile, resolverVars, disposeVars, registryVars>>

SpecRoots == InitRoots /\ [][NextRoots]_vars

\* ------------------------------------- reconciliation as a pure computation

\* The roots the reconciliation is tried on: the root strings, /b and ''.
ReconcileRoots == RootStrings \cup { <<"/", "b">>, <<>> }

\* The rule collections the reconciliation starts from: no rule, the rules of
\* clangd-context, and those with a lone patterned cpp rule (what the one-splice
\* deletion of extension.ts leaves behind) or a patterned cuda rule.
StartingSelectors ==
    InitialSelectors \cup
    { <<>>,
      << Rule("c", NoPattern), Rule("cpp", Glob(<<"/", "a">>)) >>,
      << Rule("cuda", Glob(<<"/", "b">>)), Rule("cpp", NoPattern) >> }

InitReconcile ==
    /\ selectors \in StartingSelectors
    /\ simpleCancelation = 1
    /\ canceled = <<FALSE>>
    /\ reqs = <<>>
    /\ contextClient = "none"
    /\ restartLog = <<>>
    /\ lastCall = "none"
    /\ lastReconcile = NoReconcile
    /\ ResolverIdle
    /\ DisposeIdle
    /\ RegistryIdle

\* compareCurrentAndDesiredRoots(newRoots) and then
\* reconcileSelectorsAndTargets(toAdds, toDeletes), lines 13 and 14.
Reconcile(newRoots) ==
    LET delta == compareCurrentAndDesiredRoots(newRoots, selectors)
        after == reconcileSelectorsAndTargets(delta.toAdds, delta.toDeletes,
                                              selectors)
    IN  /\ Len(getCurrentRoots(after)) <= 2 * MaxPairs
        /\ selectors' = after
        /\ lastReconcile' = [applied |-> TRUE, roots |-> newRoots,
                             withGlobs |-> WithGlobs(newRoots),
                             toAdds |-> delta.toAdds,
                             toDeletes |-> delta.toDeletes,
                             before |-> ManagedPatterns(selectors)]
        /\ UNCHANGED <<simpleCancelation, canceled, reqs, contextClient,
                       restartLog, lastCall, resolverVars, disposeVars,
                       registryVars>>

NextReconcile ==
    \E newRoots \in SeqsUpTo(ReconcileRoots, MaxRoots) : Reconcile(newRoots)

SpecReconcile == InitReconcile /\ [][NextReconcile]_vars

\* ------------------------------------------------ workspace-folder resolver

\* if (result.charAt(result.length - 1) !== '/') result = result + '/'
SlashTerminated(uri) ==
    IF Len(uri) = 0 \/ uri[Len(uri)] # "/" THEN Append(uri, "/") ELSE uri

\* String.prototype.startsWith
StartsWith(s, prefix) ==
    Len(prefix) <= Len(s) /\ SubSeq(s, 1, Len(prefix)) = prefix

\* A comparator that sorts the longest first.
compareLengthReversed(a, b) == Len(b) - Len(a)

\* (a, b) => a.length - b.length
compareLength(a, b) == Len(a) - Len(b)

\* Array.prototype.sort with that comparator: stable, so x goes after every
\* element it does not sort before.
RECURSIVE insertSorted(_, _)
insertSorted(sorted, x) ==
    IF sorted = <<>> THEN <<x>>
    ELSE IF compareLength(x, Head(sorted)) < 0 THEN <<x>> \o sorted
    ELSE <<Head(sorted)>> \o insertSorted(Tail(sorted), x)

RECURSIVE sortByLength(_)
sortByLength(list) ==
    IF list = <<>> THEN <<>>
    ELSE insertSorted(sortByLength(SubSeq(list, 1, Len(list) - 1)),
                      list[Len(list)])

\* sortedWorkspaceFolders(): the cached list, or the folders' slash-terminated
\* URIs sorted by length.
sortedWorkspaceFolders(cache, folders) ==
    IF cache.defined THEN cache.list
    ELSE sortByLength([i \in 1..Len(folders) |-> SlashTerminated(folders[i])])

\* vscode.workspace.getWorkspaceFolder(uri): the configured folder that
\* contains uri, the innermost when several do; NoFolder when none does.
getWorkspaceFolder(folders, uri) ==
    LET containing == { i \in 1..Len(folders) :
                          StartsWith(SlashTerminated(uri),
                                     SlashTerminated(folders[i])) }
    IN  IF containing = {} THEN NoFolder
        ELSE folders[CHOOSE i \in containing :
                        \A j \in containing : Len(folders[j]) <= Len(folders[i])]

\* The for loop of getOuterMostWorkspaceFolder from position i on: the index
\* of the first element uri starts with, 0 when there is none.
RECURSIVE firstPrefix(_, _, _)
firstPrefix(sorted, i, uri) ==
    IF i > Len(sorted) THEN 0
    ELSE IF StartsWith(uri, sorted[i]) THEN i
    ELSE firstPrefix(sorted, i + 1, uri)

getOuterMostWorkspaceFolder(folder, sorted, folders) ==
    LET i == firstPrefix(sorted, 1, SlashTerminated(folder))
    IN  IF i = 0 THEN folder ELSE getWorkspaceFolder(folders, sorted[i])

\* The folders the resolver is tried on: /w, /w/p, /w/p/s, /wx and /o/.
ResolverFolders ==
    { <<"/", "w">>, <<"/", "w", "/", "p">>, <<"/", "w", "/", "p", "/", "s">>,
      <<"/", "w", "x">>, <<"/", "o", "/">> }

IsDistinct(list) ==
    \A i, j \in 1..Len(list) : i # j => list[i] # list[j]

InitResolver ==
    /\ selectors \in InitialSelectors
    /\ simpleCancelation = 1
    /\ canceled = <<FALSE>>
    /\ reqs = <<>>
    /\ contextClient = "none"
    /\ restartLog = <<>>
    /\ lastCall = "none"
    /\ lastReconcile = NoReconcile
    /\ ResolverIdle
    /\ DisposeIdle
    /\ RegistryIdle

\* The workspace folders change: the listener of line 145 drops the cache.
ResolverFoldersChanged(folders) ==
    /\ IsDistinct(folders)
    /\ folders # workspaceFolders
    /\ workspaceFolders' = folders
    /\ sortedCache' = [defined |-> FALSE, list |-> <<>>]
    /\ resolved' = NoResolution
    /\ UNCHANGED <<rootVars, lastReconcile, disposeVars, registryVars>>

\* getOuterMostWorkspaceFolder(folder), which fills the cache.
Resolve(folder) ==
    LET sorted == sortedWorkspaceFolders(sortedCache, workspaceFolders)
    IN  /\ sortedCache' = [defined |-> TRUE, list |-> sorted]
        /\ resolved' =
              [done |-> TRUE, folder |-> folder,
               result |-> getOuterMostWorkspaceFolder(folder, sorted,
                                                      workspaceFolders)]
        /\ UNCHANGED <<workspaceFolders, rootVars, lastReconcile, disposeVars,
                       registryVars>>

NextResolver ==
    \/ \E folders \in SeqsUpTo(ResolverFolders, MaxFolders) :
            ResolverFoldersChanged(folders)
    \/ \E folder \in ResolverFolders : Resolve(folder)

SpecResolver == InitResolver /\ [][NextResolver]_vars

\* ----------------------------------------------------- ClangdLanguageClient

\* dispose(): if (this.startDisposable) this.startDisposable.dispose(). The
\* field is left as it is.
disposeCallsAfterDispose(calls, disposable) ==
    IF disposable # 0 THEN [calls EXCEPT ![disposable] = @ + 1] ELSE calls

InitDispose ==
    /\ selectors \in InitialSelectors
    /\ simpleCancelation = 1
    /\ canceled = <<FALSE>>
    /\ reqs = <<>>
    /\ contextClient = "none"
    /\ restartLog = <<>>
    /\ lastCall = "none"
    /\ lastReconcile = NoReconcile
    /\ ResolverIdle
    /\ DisposeIdle
    /\ RegistryIdle

\* activate(): this.dispose(); this.startDisposable = this.start()
Activate ==
    /\ Len(disposeCalls) < MaxStarts
    /\ startDisposable # 0 => disposeCalls[startDisposable] < MaxDisposals
    /\ disposeCalls' =
          Append(disposeCallsAfterDispose(disposeCalls, startDisposable), 0)
    /\ startDisposable' = Len(disposeCalls) + 1
    /\ clientOps' = [prev |-> clientOps.last, last |-> "activate",
                     disposedSomething |-> startDisposable # 0]
    /\ UNCHANGED <<rootVars, lastReconcile, resolverVars, registryVars>>

\* dispose()
Dispose ==
    /\ startDisposable # 0 => disposeCalls[startDisposable] < MaxDisposals
    /\ disposeCalls' = disposeCallsAfterDispose(disposeCalls, startDisposable)
    /\ clientOps' = [prev |-> clientOps.last, last |-> "dispose",
                     disposedSomething |-> startDisposable # 0]
    /\ UNCHANGED <<startDisposable, rootVars, lastReconcile, resolverVars,
                   registryVars>>

NextDispose == Activate \/ Dispose

SpecDispose == InitDispose /\ [][NextDispose]_vars

\* ------------------------------------------- client registry and its events

\* The cppLanguageClient values tried: 'any' lets this extension own the
\* folder (as 'compile' does), 'off' stands for every other value.
Settings == {"any", "off"}

\* clientRequest !== 'any' && clientRequest !== 'compile'
notPermitted(clientRequest) == clientRequest # "any" /\ clientRequest # "compile"

\* The documents that open: /w/p/a (cpp) and /w/n (python).
DocOrder ==
    << [uri |-> <<"/", "w", "/", "p", "/", "a">>, scheme |-> "file",
        languageId |-> "cpp"],
       [uri |-> <<"/", "w", "/", "n">>, scheme |-> "file",
        languageId |-> "python"] >>

Docs == { DocOrder[i] : i \in 1..Len(DocOrder) }

SupportedLanguages == {"cpp", "c", "cuda", "objective-c", "objective-cpp"}

\* The folders of a set, in the workspace's order.
InOrder(set) == SelectSeq(FolderOrder, LAMBDA f : f \in set)

\* What a handler works on: the registry, the clients, the resolver cache and
\* the outcome of the last existence check. env carries what it reads: the
\* workspace folders and the settings.
Work(cl, objs, cache, fnd) ==
    [clients |-> cl, objs |-> objs, cache |-> cache, found |-> fnd]

\* A second client for a folder that has one: the registry is not asked.
folderIsFreeAlways(w, folder) == TRUE

\* !clients.has(folder) (and !clients.get(folder))
folderIsFree(w, folder) == w.clients[folder] = 0

\* createClient(context, folder.uri); clients.set(folder, client); client.start()
createAndStart(w, folder) ==
    [w EXCEPT !.objs = Append(@, [folder |-> folder, state |-> "running"]),
              !.clients[folder] = Len(w.objs) + 1]

\* if (!clients.has(folder)) { ... }
ensureClient(w, folder) ==
    IF folderIsFree(w, folder)
    THEN createAndStart([w EXCEPT !.found = FALSE], folder)
    ELSE [w EXCEPT !.found = TRUE]

\* didOpenTextDocument(document)
didOpenTextDocument(w, doc, env) ==
    IF doc.scheme # "file" /\ doc.scheme # "untitled" THEN w
    ELSE IF doc.languageId \notin SupportedLanguages THEN w
    ELSE LET inner == getWorkspaceFolder(env.folders, doc.uri)
         IN  IF inner = NoFolder THEN w
             ELSE LET sorted == sortedWorkspaceFolders(w.cache, env.folders)
                      folder == getOuterMostWorkspaceFolder(inner, sorted,
                                                            env.folders)
                      cached == [w EXCEPT !.cache =
                                    [defined |-> TRUE, list |-> sorted]]
                  IN  IF notPermitted(env.config[folder]) THEN cached
                      ELSE ensureClient(cached, folder)

\* vscode.workspace.textDocuments.forEach(didOpenTextDocument)
RECURSIVE forEachDocument(_, _, _, _)
forEachDocument(w, docs, i, env) ==
    IF i > Len(DocOrder) THEN w
    ELSE forEachDocument(IF DocOrder[i] \in docs
                         THEN didOpenTextDocument(w, DocOrder[i], env) ELSE w,
                         docs, i + 1, env)

\* client.stop() on a client in state s.
stopped(s) == IF s = "running" THEN "stopping" ELSE s

\* The loop over event.removed with the await lost: every client of a removed
\* folder is deleted and stopped in one go.
RECURSIVE removedLoopNoAwait(_, _)
removedLoopNoAwait(w, removed) ==
    IF removed = <<>> THEN [w |-> w, awaiting |-> {}, removed |-> <<>>]
    ELSE LET folder == Head(removed)
             client == w.clients[folder]
         IN  removedLoopNoAwait(
                IF client # 0
                THEN [w EXCEPT !.clients[folder] = 0,
                               !.objs[client].state =
                                   IF @ = "running" THEN "stopping" ELSE @]
                ELSE w,
                Tail(removed))

\* The loop over event.removed up to its next await: for a folder with a
\* client, clients.delete(folder) and client.stop(), then the await.
RECURSIVE removedLoop(_, _)
removedLoop(w, removed) ==
    IF removed = <<>> THEN [w |-> w, awaiting |-> {}, removed |-> <<>>]
    ELSE LET folder == Head(removed)
             client == w.clients[folder]
         IN  IF client # 0
             THEN [w |-> [w EXCEPT !.clients[folder] = 0,
                                   !.objs[client].state = stopped(@)],
                   awaiting |-> {client}, removed |-> Tail(removed)]
             ELSE removedLoop(w, Tail(removed))

\* The loop over event.added: it has no await.
RECURSIVE addedLoop(_, _, _)
addedLoop(w, added, env) ==
    IF added = <<>> THEN w
    ELSE LET folder == Head(added)
         IN  addedLoop(IF notPermitted(env.config[folder])
                       THEN ensureClient(w, folder) ELSE w,
                       Tail(added), env)

\* The loop of the 'cpp' branch from position i up to its next await: for a
\* folder that is not permitted and has a client, client.stop(), then the await.
RECURSIVE cppLoop(_, _, _, _)
cppLoop(w, folders, i, env) ==
    IF i > Len(folders) THEN [w |-> w, awaiting |-> {}, idx |-> 0]
    ELSE LET folder == folders[i]
             client == w.clients[folder]
         IN  IF notPermitted(env.config[folder]) /\ client # 0
             THEN [w |-> [w EXCEPT !.objs[client].state = stopped(@)],
                   awaiting |-> {client}, idx |-> i]
             ELSE cppLoop(w, folders, i + 1, env)

\* deactivate() up to the Promise.all: stop() on every client, clients.clear().
Registered(cl) == { cl[f] : f \in Folders } \ {0}

deactivate(w) ==
    [w |-> [w EXCEPT !.clients = [f \in Folders |-> 0],
                     !.objs = [c \in 1..Len(w.objs) |->
                                 IF c \in Registered(w.clients)
                                 THEN [w.objs[c] EXCEPT !.state = stopped(@)]
                                 ELSE w.objs[c]]],
     awaiting |-> Registered(w.clients)]

\* ---- the state machine

InitRegistry ==
    /\ selectors \in InitialSelectors
    /\ simpleCancelation = 1
    /\ canceled = <<FALSE>>
    /\ reqs = <<>>
    /\ contextClient = "none"
    /\ restartLog = <<>>
    /\ lastCall = "none"
    /\ lastReconcile = NoReconcile
    /\ ResolverIdle
    /\ DisposeIdle
    /\ config \in [Folders -> Settings]
    /\ textDocuments = {}
    /\ clients = [f \in Folders |-> 0]
    /\ clientObjs = <<>>
    /\ found = FALSE
    /\ handlers = <<>>

Now == Work(clients, clientObjs, sortedCache, found)

\* A client that has come to rest (stopped or failed to stop), is in no
\* registry entry and is awaited by no handler takes no further part: its
\* record is cleared.
Gone == [folder |-> NoFolder, state |-> "gone"]

Forget(objs, cl, hs) ==
    [c \in 1..Len(objs) |->
        IF /\ objs[c].state \in {"stopped", "failed"}
           /\ c \notin Registered(cl)
           /\ \A slot \in 1..Len(hs) : c \notin hs[slot].awaiting
        THEN Gone ELSE objs[c]]

\* The handler's work is written back, with the suspended handlers as they
\* now are; no more than MaxClients clients exist.
Commit(w, hs) ==
    /\ Len(w.objs) <= MaxClients
    /\ clients' = w.clients
    /\ handlers' = hs
    /\ clientObjs' = Forget(w.objs, w.clients, hs)
    /\ found' = w.found
    /\ sortedCache' = w.cache

\* The suspended handlers are kept in the order they first stopped at an
\* await; one more may stop while there are fewer than MaxHandlers.
HasFreeSlot == Len(handlers) < MaxHandlers

\* The handler in slot has come to its end and leaves the list (slot 0: it
\* never stopped).
Ended(slot) ==
    IF slot = 0 THEN handlers
    ELSE SubSeq(handlers, 1, slot - 1)
            \o SubSeq(handlers, slot + 1, Len(handlers))

\* The handler stops at an await: in its slot, or (slot 0) as a new entry.
Suspended(slot, h) ==
    IF slot = 0 THEN Append(handlers, h) ELSE [handlers EXCEPT ![slot] = h]

Frame == UNCHANGED <<rootVars, lastReconcile, resolved, disposeVars>>

\* onDidOpenTextDocument: the document is open and didOpenTextDocument runs.
DidOpen(doc) ==
    /\ textDocuments' = textDocuments \cup {doc}
    /\ Commit(didOpenTextDocument(Now, doc,
                 [folders |-> workspaceFolders, config |-> config]),
              handlers)
    /\ UNCHANGED <<workspaceFolders, config>>
    /\ Frame

\* The rest of the onDidChangeWorkspaceFolders handler once the removed loop
\* has stopped at an await (r.awaiting # {}) or come to its end: at the end,
\* the loop over event.added.
FoldersHandlerGoesOn(r, added, env, slot) ==
    IF r.awaiting # {}
    THEN /\ slot = 0 => HasFreeSlot
         /\ Commit(r.w, Suspended(slot,
                      [IdleHandler EXCEPT !.kind = "folders",
                          !.removed = r.removed, !.added = added,
                          !.awaiting = r.awaiting]))
    ELSE Commit(addedLoop(r.w, added, env), Ended(slot))

\* onDidChangeWorkspaceFolders: the workspace has its new folders, the listener
\* of line 145 drops the resolver cache, and the handler of line 323 runs up
\* to its first await.
FoldersChanged(removed, added) ==
    /\ removed \subseteq SeqToSet(workspaceFolders)
    /\ added \subseteq Folders \ SeqToSet(workspaceFolders)
    /\ removed \cup added # {}
    /\ workspaceFolders' =
          InOrder((SeqToSet(workspaceFolders) \ removed) \cup added)
    /\ FoldersHandlerGoesOn(
          removedLoop([Now EXCEPT !.cache = [defined |-> FALSE, list |-> <<>>]],
                      InOrder(removed)),
          InOrder(added),
          [folders |-> workspaceFolders', config |-> config], 0)
    /\ UNCHANGED <<config, textDocuments>>
    /\ Frame

\* The rest of the 'cpp' branch once its loop has stopped at an await or come
\* to its end: at the end, didOpenTextDocument on every open document.
CppHandlerGoesOn(r, folders, env, slot) ==
    IF r.awaiting # {}
    THEN /\ slot = 0 => HasFreeSlot
         /\ Commit(r.w, Suspended(slot,
                      [IdleHandler EXCEPT !.kind = "cpp", !.folders = folders,
                          !.idx = r.idx, !.awaiting = r.awaiting]))
    ELSE Commit(forEachDocument(r.w, textDocuments, 1, env), Ended(slot))

\* The rest of the 'clangd' branch once deactivate() has issued its stops: at
\* the end of the await, didOpenTextDocument on every open document.
ClangdHandlerGoesOn(r, env, slot) ==
    IF r.awaiting # {}
    THEN /\ slot = 0 => HasFreeSlot
         /\ Commit(r.w, Suspended(slot,
                      [IdleHandler EXCEPT !.kind = "clangd",
                          !.awaiting = r.awaiting]))
    ELSE Commit(forEachDocument(r.w, textDocuments, 1, env), Ended(slot))

\* onDidChangeConfiguration for a change of a folder's cppLanguageClient
\* (affectsCpp) and, or, of a clangd setting (affectsClangd): the handler up to
\* its first await. The 'clangd' branch is an else branch.
ConfigChanged(affectsCpp, affectsClangd, folder, setting) ==
    /\ affectsCpp \/ affectsClangd
    /\ IF affectsCpp
       THEN setting # config[folder]
                /\ config' = [config EXCEPT ![folder] = setting]
       ELSE folder = FolderOrder[1] /\ setting = config[folder]
                /\ UNCHANGED config
    /\ LET env == [folders |-> workspaceFolders, config |-> config']
       IN  IF affectsCpp
           THEN CppHandlerGoesOn(cppLoop(Now, workspaceFolders, 1, env),
                                 workspaceFolders, env, 0)
           ELSE ClangdHandlerGoesOn(deactivate(Now), env, 0)
    /\ UNCHANGED <<workspaceFolders, textDocuments>>
    /\ Frame

\* deactivate(), called by the host.
Deactivate ==
    /\ Registered(clients) # {}
    /\ Commit(deactivate(Now).w, handlers)
    /\ UNCHANGED <<workspaceFolders, config, textDocuments>>
    /\ Frame

\* A stop() comes to its end: the promise resolves.
StopCompletes(client) ==
    /\ client \in 1..Len(clientObjs)
    /\ clientObjs[client].state = "stopping"
    /\ clientObjs' = Forget([clientObjs EXCEPT ![client].state = "stopped"],
                             clients, handlers)
    /\ UNCHANGED <<workspaceFolders, sortedCache, config, textDocuments,
                   clients, found, handlers>>
    /\ Frame

\* A stop() fails: the promise rejects.
StopFails(client) ==
    /\ client \in 1..Len(clientObjs)
    /\ clientObjs[client].state = "stopping"
    /\ clientObjs' = Forget([clientObjs EXCEPT ![client].state = "failed"],
                             clients, handlers)
    /\ UNCHANGED <<workspaceFolders, sortedCache, config, textDocuments,
                   clients, found, handlers>>
    /\ Frame

AllStopped(set) == \A c \in set : clientObjs[c].state = "stopped"
SomeFailed(set) == \E c \in set : clientObjs[c].state = "failed"

\* The folders handler goes on after `await client.stop()`.
ResumeFolders(slot) ==
    /\ slot <= Len(handlers)
    /\ handlers[slot].kind = "folders"
    /\ AllStopped(handlers[slot].awaiting)
    /\ FoldersHandlerGoesOn(removedLoop(Now, handlers[slot].removed),
                            handlers[slot].added,
                            [folders |-> workspaceFolders, config |-> config],
                            slot)
    /\ UNCHANGED <<workspaceFolders, config, textDocuments>>
    /\ Frame

\* The 'cpp' branch goes on after `await client.stop()`: clients.delete(folder)
\* and the rest of the loop.
ResumeCpp(slot) ==
    /\ slot <= Len(handlers)
    /\ handlers[slot].kind = "cpp"
    /\ AllStopped(handlers[slot].awaiting)
    /\ LET h   == handlers[slot]
           env == [folders |-> workspaceFolders, config |-> config]
           w   == [Now EXCEPT !.clients[h.folders[h.idx]] = 0]
       IN  CppHandlerGoesOn(cppLoop(w, h.folders, h.idx + 1, env),
                            h.folders, env, slot)
    /\ UNCHANGED <<workspaceFolders, config, textDocuments>>
    /\ Frame

\* The 'clangd' branch goes on after `await deactivate()`.
ResumeClangd(slot) ==
    /\ slot <= Len(handlers)
    /\ handlers[slot].kind = "clangd"
    /\ AllStopped(handlers[slot].awaiting)
    /\ ClangdHandlerGoesOn([w |-> Now, awaiting |-> {}],
                           [folders |-> workspaceFolders, config |-> config],
                           slot)
    /\ UNCHANGED <<workspaceFolders, config, textDocuments>>
    /\ Frame

\* The awaited promise rejects: the handler ends there.
HandlerThrows(slot) ==
    /\ slot <= Len(handlers)
    /\ SomeFailed(handlers[slot].awaiting)
    /\ handlers' = Ended(slot)
    /\ clientObjs' = Forget(clientObjs, clients, Ended(slot))
    /\ UNCHANGED <<workspaceFolders, sortedCache, config, textDocuments,
                   clients, found>>
    /\ Frame

Next ==
    \/ \E doc \in Docs : DidOpen(doc)
    \/ \E removed, added \in SUBSET Folders : FoldersChanged(removed, added)
    \/ \E affectsCpp, affectsClangd \in BOOLEAN, folder \in Folders,
          setting \in Settings :
            ConfigChanged(affectsCpp, affectsClangd, folder, setting)
    \/ Deactivate
    \/ \E client \in 1..MaxClients : StopCompletes(client)
    \/ \E client \in 1..MaxClients : StopFails(client)
    \/ \E slot \in 1..MaxHandlers : ResumeFolders(slot)
    \/ \E slot \in 1..MaxHandlers : ResumeCpp(slot)
    \/ \E slot \in 1..MaxHandlers : ResumeClangd(slot)
    \/ \E slot \in 1..MaxHandlers : HandlerThrows(slot)

Spec == InitRegistry /\ [][Next]_vars

\* ------------------------- the inline clangd.setRoots handler of extension.ts

\* selectors.filter(item => item.language === 'c' &&
\*                          typeof item.pattern === 'string').map(pattern)
inlineCurrent(sel) ==
    LET IsC(item) == item.language = "c" /\ item.pattern # NoPattern
        kept == SelectSeq(sel, IsC)
    IN  { kept[i].pattern : i \in 1..Len(kept) }

\* index = selectors.findIndex(...); if (index !== -1) selectors.splice(index, 1)
spliceFirst(sel, p) ==
    IF findIndex(sel, p) # 0 THEN splice(sel, findIndex(sel, p)) ELSE sel

\* for (const toDelete of current): patterns are distinct, so the result does
\* not depend on the order.
RECURSIVE inlineDeleteLoop(_, _)
inlineDeleteLoop(sel, toDeletes) ==
    IF toDeletes = {} THEN sel
    ELSE LET p == CHOOSE q \in toDeletes : TRUE
         IN  inlineDeleteLoop(spliceFirst(sel, p), toDeletes \ {p})

\* The handler's comparison and its two loops: the delta and the collection
\* they leave.
inlineReconcile(newRoots, sel) ==
    LET delta == compareLoop(WithGlobs(newRoots), 1, inlineCurrent(sel), <<>>)
    IN  [toDeletes |-> delta.toDeletes,
         after |-> addLoop(inlineDeleteLoop(sel, delta.toDeletes),
                           delta.toAdds, 1)]

InitInline ==
    /\ selectors \in InitialSelectors
    /\ simpleCancelation = 1
    /\ canceled = <<FALSE>>
    /\ reqs = <<>>
    /\ contextClient = "ready"
    /\ restartLog = <<>>
    /\ lastCall = "none"
    /\ lastReconcile = NoReconcile
    /\ ResolverIdle
    /\ DisposeIdle
    /\ RegistryIdle

\* The inline handler: the validation, the reconciliation and, when a root
\* was deleted, 'clangd.restart' (the context is disposed and activated
\* again); otherwise the client's features are initialized again.
InlineSetRoots(arg) ==
    /\ IF ~IsValidArg(arg)
       THEN /\ lastCall' = "invalid"
            /\ UNCHANGED <<selectors, contextClient>>
       ELSE LET r == inlineReconcile(ItemVals(arg), selectors)
            IN  /\ Len(r.after) <= MaxRules
                /\ selectors' = r.after
                /\ lastCall' = IF r.toDeletes # {} THEN "restarted"
                                                   ELSE "reinitialized"
                /\ contextClient' = IF r.toDeletes # {} THEN "starting"
                                                        ELSE contextClient
    /\ UNCHANGED <<simpleCancelation, canceled, reqs, restartLog>>

NextInline ==
    \/ \E arg \in Args :
          InlineSetRoots(arg)
              /\ UNCHANGED <<lastReconcile, resolverVars, disposeVars,
                             registryVars>>
    \/ ContextReady
          /\ UNCHANGED <<lastReconcile, resolverVars, disposeVars,
                         registryVars>>
    \/ ContextFails
          /\ UNCHANGED <<lastReconcile, resolverVars, disposeVars,
                         registryVars>>

SpecInline == InitInline /\ [][NextInline]_vars

\* ================================================================== claims

\* C1: of restart requests issued while the earlier ones still wait, only the
\* last takes effect. No request executes 'clangd.restart' twice; a request
\* that was still waiting when a newer one was issued executes none; a request
\* that no newer one overtook and whose wait resolved executes exactly one;
\* and every restart executed finds the managed patterns of the live rules
\* equal to the globs of the request that executes it.
RestartCount(r) ==
    Cardinality({ k \in 1..Len(restartLog) : restartLog[k].req = r })

OnlyLastRestartTakesEffect ==
    /\ \A r \in 1..Len(reqs) :
        /\ reqs[r].issued <= 1
        /\ RestartCount(r) = reqs[r].issued
        /\ reqs[r].overlapped => reqs[r].issued = 0
        /\ (reqs[r].pc = "done" /\ ~reqs[r].overlapped
                /\ reqs[r].outcome # "failed") => reqs[r].issued = 1
    /\ \A k \in 1..Len(restartLog) :
        restartLog[k].scope = reqs[restartLog[k].req].scope

\* Two requests, the first still waiting when the second was issued, both
\* resolved by a ready client: one restart, the second's.
OnlyLastRestartWitness ==
    /\ Len(reqs) >= 2
    /\ reqs[1].overlapped /\ reqs[1].pc = "done" /\ reqs[1].outcome = "stale"
    /\ reqs[2].pc = "done" /\ reqs[2].outcome = "restarted"
    /\ reqs[1].scope # reqs[2].scope
    /\ Len(restartLog) = 1 /\ restartLog[1].req = 2

\* C4: reconciliation is idempotent: after the delta of a list of roots has
\* been applied, the delta of the same list is empty.
ReconcileIdempotent ==
    lastReconcile.applied =>
        LET again == compareCurrentAndDesiredRoots(lastReconcile.roots, selectors)
        IN  again.toAdds = <<>> /\ again.toDeletes = {}

\* C5: reconciliation converges: after the delta of a list of roots has been
\* applied, whatever was applied before, the patterns of the managed rules are
\* exactly the globs of that list.
ReconcileConverges ==
    lastReconcile.applied =>
        ManagedPatterns(selectors) = SeqToSet(WithGlobs(lastReconcile.roots))

\* A second list applied over the rules of a first: globs removed, a glob
\* added, and two roots given in an order that is not the order of arrival.
ReconcileConvergesWitness ==
    /\ lastReconcile.applied
    /\ lastReconcile.before \ ManagedPatterns(selectors) # {}
    /\ lastReconcile.toAdds # <<>>
    /\ lastReconcile.toDeletes # {}
    /\ Len(lastReconcile.roots) = 2
    /\ lastReconcile.withGlobs[1] # lastReconcile.withGlobs[2]
    /\ lastReconcile.withGlobs[2] \in lastReconcile.before

\* r without its trailing slashes.
RECURSIVE StripSlashes(_)
StripSlashes(s) ==
    IF EndsWithSlash(s) THEN StripSlashes(SubSeq(s, 1, Len(s) - 1)) ELSE s

\* C6: the glob generated for a root is the root normalized to end with
\* exactly one '/', followed by '**/*'.
GlobEndsWithExactlyOneSlash ==
    \A i \in 1..Len(lastReconcile.roots) :
        lastReconcile.withGlobs[i] =
            Append(StripSlashes(lastReconcile.roots[i]), "/")
                \o <<"*", "*", "/", "*">>

\* A list of strings is what the command accepts.
NotAStringList(arg) ==
    ~arg.isArray \/ \E i \in 1..Len(arg.items) : ~arg.items[i].isString

\* C8: a clangd.setRoots call whose argument is not a list of strings changes
\* neither the rule collection, nor the restart requests, nor the tokens, nor
\* the restarts executed.
InvalidCallHasNoEffect ==
    [][\A arg \in Args :
         (NotAStringList(arg) /\ SetRoots(arg)) =>
            UNCHANGED <<selectors, simpleCancelation, canceled, reqs,
                        restartLog>>]_vars

\* An invalid call made while managed rules exist and a restart request is
\* waiting on a live token.
InvalidCallWitness ==
    /\ lastCall = "invalid"
    /\ ManagedPatterns(selectors) # {}
    /\ \E r \in 1..Len(reqs) :
        reqs[r].pc # "done" /\ ~canceled[reqs[r].tok]

\* The rules of sel whose pattern is not in pats, in order.
RulesOutside(sel, pats) ==
    LET Keep(item) == item.pattern \notin pats
    IN  SelectSeq(sel, Keep)

EmptyArg == RootsArg(<<>>)

\* C9: clangd.setRoots([]) removes every rule that carries a managed pattern
\* and adds none; when there was a managed rule it issues one restart request,
\* and that request, resolved by a ready client while it is the latest,
\* executes exactly one restart.
EmptyListClearsManagedRules ==
    [][/\ SetRoots(EmptyArg) =>
            /\ ManagedPatterns(selectors') = {}
            /\ selectors' = RulesOutside(selectors, ManagedPatterns(selectors))
            /\ ManagedPatterns(selectors) # {} =>
                /\ Len(reqs') = Len(reqs) + 1
                /\ reqs'[Len(reqs')].scope = {}
                /\ reqs'[Len(reqs')].pc # "done"
       /\ \A r \in 1..Len(reqs) :
            (ReadyResolves(r) /\ reqs[r].scope = {} /\ r = Len(reqs)) =>
                /\ reqs'[r].issued = 1
                /\ restartLog' = Append(restartLog, [req |-> r, scope |-> {}])
       /\ \A r \in 1..Len(reqs') : reqs'[r].issued <= 1]_vars

\* A root was set, the empty list removed its rules, and the request of that
\* call has executed its restart.
EmptyListWitness ==
    /\ lastCall = "reconciled"
    /\ ManagedPatterns(selectors) = {}
    /\ Len(reqs) >= 2
    /\ reqs[Len(reqs)].scope = {}
    /\ reqs[Len(reqs)].outcome = "restarted"
    /\ reqs[Len(reqs) - 1].scope # {}

\* The configured folders whose slash-terminated URI is a prefix of uri.
PrefixFolders(uri) ==
    { g \in SeqToSet(workspaceFolders) :
        StartsWith(SlashTerminated(uri), SlashTerminated(g)) }

\* C7: getOuterMostWorkspaceFolder(f) is the configured folder with the
\* shortest slash-terminated URI among those that are a prefix of f's, and f
\* itself when no configured folder's URI is a prefix.
OutermostIsShortestPrefix ==
    resolved.done =>
        IF PrefixFolders(resolved.folder) = {}
        THEN resolved.result = resolved.folder
        ELSE /\ resolved.result \in PrefixFolders(resolved.folder)
             /\ \A g \in PrefixFolders(resolved.folder) :
                    Len(SlashTerminated(resolved.result))
                        <= Len(SlashTerminated(g))

\* /w and /w/p configured, in either order, and a folder under /w/p resolved
\* to /w.
OutermostWitness ==
    /\ resolved.done
    /\ resolved.folder = <<"/", "w", "/", "p", "/", "s">>
    /\ resolved.result = <<"/", "w">>
    /\ <<"/", "w", "/", "p">> \in PrefixFolders(resolved.folder)
    /\ workspaceFolders[1] # <<"/", "w">>

\* The clients of folder f that step creates.
CreatedFor(f) ==
    { c \in (Len(clientObjs) + 1)..Len(clientObjs') : clientObjs'[c].folder = f }

\* A step of the document-open handler or of the workspace-folder handler.
OpenOrFoldersStep ==
    \/ \E doc \in Docs : DidOpen(doc)
    \/ \E removed, added \in SUBSET Folders : FoldersChanged(removed, added)
    \/ \E slot \in 1..MaxHandlers : ResumeFolders(slot)

\* C2: client creation is single-flight per folder. No step creates two
\* clients for one folder; a client created is, at the end of the step that
\* creates it, the registered client of its folder and started; and a
\* document-open or folder-added step that begins with the folder registered
\* creates no client for it.
CreationIsSingleFlight ==
    [][\A f \in Folders :
         /\ Cardinality(CreatedFor(f)) <= 1
         /\ \A c \in CreatedFor(f) :
                clients'[f] = c /\ clientObjs'[c].state = "running"
         /\ (CreatedFor(f) # {} /\ clients[f] # 0) => ~OpenOrFoldersStep]_vars

\* Only one client was ever created, it is the started client of /w, the
\* document /w/p/a is open, and the last existence check found that client.
CreationIsSingleFlightWitness ==
    /\ DocOrder[1] \in textDocuments
    /\ Len(clientObjs) = 1
    /\ clients[FolderOrder[1]] = 1
    /\ clientObjs[1] = [folder |-> FolderOrder[1], state |-> "running"]
    /\ found

\* The clients of folder f that exist: started, and their stop not completed.
LiveClients(f) ==
    { c \in 1..Len(clientObjs) :
        clientObjs[c].folder = f
            /\ clientObjs[c].state \in {"running", "stopping"} }

\* C3: at every reachable state each workspace folder has at most one client
\* in existence, a client existing from its start until its stop completes.
AtMostOneLiveClientPerFolder ==
    \A f \in Folders : Cardinality(LiveClients(f)) <= 1

\* C10: stopping a client is idempotent: the second of two dispose calls in a
\* row disposes nothing, and over any sequence of activate and dispose calls
\* the disposable one start returned is disposed at most once.
DisposeIsIdempotent ==
    /\ (clientOps.prev = "dispose" /\ clientOps.last = "dispose"
            /\ Len(disposeCalls) > 0) => ~clientOps.disposedSomething
    /\ \A k \in 1..Len(disposeCalls) : disposeCalls[k] <= 1

\* C11: on a workspace-folder-added event a client is created for an added
\* folder exactly when the folder's setting permits one ('any' or 'compile')
\* and the registry holds none for it. Stated of the events whose handler
\* reaches the loop over event.added without stopping at an await.
AddedFolderGetsClientIffPermitted ==
    [][\A removed, added \in SUBSET Folders :
         (FoldersChanged(removed, added) /\ handlers' = handlers) =>
            \A f \in added :
                CreatedFor(f) # {}
                    <=> (~notPermitted(config[f]) /\ clients[f] = 0)]_vars

\* What one step of the removed loop, run on list, must leave: after is the
\* handler's frame if it stopped at an await (IdleHandler if it ended). The
\* folders passed over in the step have no registry entry; only the last of
\* them can have had a client, that client has had stop() called and the
\* handler waits for it with the rest of the list still to do.
RemovedLoopStepOk(list, after) ==
    LET rest == after.removed
        done == SubSeq(list, 1, Len(list) - Len(rest))
    IN  /\ Len(rest) <= Len(list)
        /\ rest = SubSeq(list, Len(list) - Len(rest) + 1, Len(list))
        /\ \A i \in 1..Len(done) :
            /\ clients'[done[i]] = 0
            /\ clients[done[i]] # 0 =>
                /\ i = Len(done)
                /\ after.awaiting = {clients[done[i]]}
                /\ clientObjs'[clients[done[i]]].state
                        \in {"stopping", "stopped", "failed"}
        /\ (\A i \in 1..Len(done) : clients[done[i]] = 0) =>
                after.awaiting = {} /\ rest = <<>>

RoutedFolder(doc) ==
    getOuterMostWorkspaceFolder(
        getWorkspaceFolder(workspaceFolders', doc.uri),
        sortedWorkspaceFolders([defined |-> FALSE, list |-> <<>>],
                               workspaceFolders'),
        workspaceFolders')

IsRouted(doc) ==
    /\ doc.scheme \in {"file", "untitled"}
    /\ doc.languageId \in SupportedLanguages
    /\ getWorkspaceFolder(workspaceFolders', doc.uri) # NoFolder

\* A step in which the handler of a 'cpp' change reaches its end and leaves
\* no handler in flight.
CppHandlerCompletes ==
    /\ handlers' = <<>>
    /\ \/ /\ handlers = <<>>
          /\ \E affectsClangd \in BOOLEAN, folder \in Folders,
                setting \in Settings :
                    ConfigChanged(TRUE, affectsClangd, folder, setting)
       \/ ResumeCpp(1)

\* The three things the state after a 'cpp' change must show.
NoClientWhereNotPermitted ==
    \A f \in SeqToSet(workspaceFolders') :
        notPermitted(config'[f]) => clients'[f] = 0

RemovedClientWasStopped ==
    ResumeCpp(1) =>
        LET c == clients[handlers[1].folders[handlers[1].idx]]
        IN  c # 0 => clientObjs[c].state = "stopped"

OpenDocumentsHaveStartedClient ==
    \A doc \in textDocuments' :
        (IsRouted(doc) /\ ~notPermitted(config'[RoutedFolder(doc)])) =>
            /\ clients'[RoutedFolder(doc)] # 0
            /\ clientObjs'[clients'[RoutedFolder(doc)]].state = "running"

\* C13: when the handler of a 'cpp' change has completed and no handler is in
\* flight, no workspace folder whose setting does not permit a client has one
\* registered, each client removed for that was stopped, and every open
\* document that routes to a permitted folder has a registered, started client.
CppChangeReconcilesClients ==
    [][CppHandlerCompletes =>
            /\ NoClientWhereNotPermitted
            /\ RemovedClientWasStopped
            /\ OpenDocumentsHaveStartedClient]_vars

\* C14: every configuration change that affects the 'clangd' settings, alone
\* or together with the 'cpp' settings, stops every client registered at that
\* moment and takes it out of the registry.
ClangdChangeStopsAllClients ==
    [][\A affectsCpp \in BOOLEAN, folder \in Folders, setting \in Settings :
         ConfigChanged(affectsCpp, TRUE, folder, setting) =>
            /\ \A f \in Folders : clients'[f] \notin Registered(clients)
            /\ \A c \in Registered(clients) :
                    clientObjs'[c].state # "running"]_vars

\* What the handler with frame h would still do were it to go on past its
\* await: stop the client of a later folder, or create a client.
WorkLeft(h) ==
    LET env == [folders |-> workspaceFolders, config |-> config]
        routed == forEachDocument(Now, textDocuments, 1, env)
    IN  CASE h.kind = "folders" ->
                \/ \E i \in 1..Len(h.removed) : clients[h.removed[i]] # 0
                \/ addedLoop(Now, h.added, env).objs # clientObjs
          [] h.kind = "cpp" ->
                \/ cppLoop(Now, h.folders, h.idx + 1, env).awaiting # {}
                \/ routed.objs # clientObjs
          [] OTHER -> routed.objs # clientObjs

\* C15: failures are isolated per folder: a stop() that fails for one folder
\* keeps no other folder of the same event from being handled, so no handler
\* ends at a failed stop with work left for other folders or documents.
StopFailureIsIsolated ==
    [][\A slot \in 1..MaxHandlers :
         HandlerThrows(slot) => ~WorkLeft(handlers[slot])]_vars

\* C16: a valid clangd.setRoots call requests a restart exactly when its delta
\* has something to add or to delete: then one request is issued on a new
\* live token and the token before it is invalidated; with an empty delta the
\* rule collection, the requests, the tokens and the restarts executed are
\* left as they were.
ValidCallRestartsIffDelta ==
    [][\A arg \in ValidArgs :
         SetRoots(arg) =>
            LET delta ==
                    compareCurrentAndDesiredRoots(ItemVals(arg), selectors)
            IN  IF delta.toAdds # <<>> \/ delta.toDeletes # {}
                THEN /\ Len(reqs') = Len(reqs) + 1
                     /\ reqs'[Len(reqs')].tok = simpleCancelation'
                     /\ simpleCancelation' # simpleCancelation
                     /\ ~canceled'[simpleCancelation']
                     /\ canceled'[simpleCancelation]
                     /\ restartLog' = restartLog
                ELSE UNCHANGED <<selectors, reqs, canceled,
                                 simpleCancelation, restartLog>>]_vars

\* A valid call with an empty delta, made while managed rules exist and a
\* restart request waits on a live token.
ValidCallWitness ==
    /\ lastCall = "unchanged"
    /\ ManagedPatterns(selectors) # {}
    /\ \E r \in 1..Len(reqs) :
        reqs[r].pc # "done" /\ ~canceled[reqs[r].tok]

\* C17: no client is orphaned: every client that has been started and is not
\* in the registry has had stop() called on it.
NoClientIsOrphaned ==
    \A c \in 1..Len(clientObjs) :
        clientObjs[c].state = "running" => c \in Registered(clients)

\* C18: a restart request whose wait for the client fails is abandoned: the
\* step in which the rejection reaches it ends the request, executes no
\* restart and changes neither the client, the rules nor the tokens; no
\* request that ended this way has ever executed a restart.
FailedWaitIsAbandoned ==
    [][\A r \in 1..MaxRequests :
         ReadyRejects(r) =>
            /\ reqs'[r].pc = "done"
            /\ reqs'[r].outcome = "failed"
            /\ UNCHANGED <<restartLog, contextClient, selectors, canceled,
                           simpleCancelation>>
            /\ \A q \in 1..Len(reqs') :
                    reqs'[q].outcome = "failed" =>
                        /\ reqs'[q].issued = 0
                        /\ \A k \in 1..Len(restartLog') :
                                restartLog'[k].req # q]_vars

\* A request that was the latest, on a live token, and ended at a failed
\* wait: no restart was executed.
FailedWaitWitness ==
    /\ Len(reqs) >= 1
    /\ reqs[Len(reqs)].outcome = "failed"
    /\ reqs[Len(reqs)].pc = "done"
    /\ ~canceled[reqs[Len(reqs)].tok]
    /\ restartLog = <<>>

\* The number of rules of sel tagged lang that carry pattern p.
RuleCount(sel, lang, p) ==
    Cardinality({ i \in 1..Len(sel) :
                    sel[i].language = lang /\ sel[i].pattern = p })

\* C19: after any sequence of clangd.setRoots calls the managed rules come in
\* pairs: every pattern is carried by as many c rules as cpp rules, and by at
\* least one of each.
RulesComeInPairs ==
    \A i \in 1..Len(selectors) :
        selectors[i].pattern # NoPattern =>
            /\ RuleCount(selectors, "c", selectors[i].pattern)
                    = RuleCount(selectors, "cpp", selectors[i].pattern)
            /\ RuleCount(selectors, "c", selectors[i].pattern) >= 1

\* Calls have added a root and removed another: the first request's globs
\* are not all there any more, a glob it did not name is, and one glob is
\* carried by two pairs.
RulesComeInPairsWitness ==
    /\ Len(reqs) >= 2
    /\ reqs[1].scope \ ManagedPatterns(selectors) # {}
    /\ ManagedPatterns(selectors) \ reqs[1].scope # {}
    /\ \E p \in ManagedPatterns(selectors) : RuleCount(selectors, "c", p) = 2

\* The rules of sel that carry pattern p.
RulesWith(sel, p) == { i \in 1..Len(sel) : sel[i].pattern = p }

\* C20: the inline clangd.setRoots handler of extension.ts removes both rules
\* of every root whose glob is in the collection and not in the new list:
\* after the call no rule carries that glob.
InlineHandlerRemovesBothRules ==
    [][\A arg \in ValidArgs :
         InlineSetRoots(arg) =>
            \A p \in inlineCurrent(selectors)
                        \ SeqToSet(WithGlobs(ItemVals(arg))) :
                RulesWith(selectors', p) = {}]_vars

\* C21: no two registered clients have folders of which one is a path prefix
\* of the other, so every open document lies in the scope of at most one
\* registered client.
ClientScopesNeverOverlap ==
    \A f, g \in Folders :
        (f # g /\ clients[f] # 0 /\ clients[g] # 0) =>
            ~StartsWith(SlashTerminated(g), SlashTerminated(f))

====
